---- MODULE Spec2Model ----
(***************************************************************************)
(* Model of pyod/models/loci.py: the LOCI detector.                        *)
(*                                                                         *)
(* A dataset X is a sequence of points with one integer feature, so the    *)
(* Euclidean distance matrix squareform(pdist(X)) is |X[i] - X[j]| and is  *)
(* exact in float64.  alpha is a float64 written as the fraction an/ad.    *)
(* A radius r of the scan is either a distance d or the quotient d/alpha;  *)
(* it is kept as the record [d, div], and every comparison the code makes  *)
(* with it is decided exactly on integers, with the float64 rounding of    *)
(* the round trip (d/alpha)*alpha taken from RoundsUp.                     *)
(* A score mdef/sigma_mdef is the real (S - cur*m)/sqrt(m*Q - S^2), with   *)
(* m, S, Q the size, sum and sum of squares of n_values; it is kept as the *)
(* pair <<num, var>> = <<S - cur*m, m*Q - S^2>>.  var = 0 is a float64     *)
(* division by zero: nan when num = 0, +inf/-inf otherwise.                *)
(***************************************************************************)
EXTENDS Integers, Sequences, FiniteSets

VARIABLES
    alpha,            \* self._alpha, <<an, ad>>
    threshold_,       \* self.threshold_ (k)
    attrs,            \* names of the attributes set on the detector
    decision_scores_, \* self.decision_scores_
    labels_,          \* self.labels_
    mu,               \* self._mu
    sigma,            \* self._sigma
    data,             \* the caller's dataset
    call,             \* the method being executed: "none", "fit", "decision_function"
    pc,               \* position inside the method
    X,                \* argument of the running call
    outlier_scores,   \* local list of _calculate_decision_score
    p_ix,             \* outer loop index (1-based)
    critical_values,  \* local of the outer loop body
    r_ix,             \* position of the inner loop in critical_values (1-based)
    r,                \* inner loop variable, as last assigned
    n_values,         \* locals of the inner loop body, as last assigned
    cur_alpha_n,
    how,              \* how the inner loop of the current point ended
    outcome,          \* what the last finished call did
    result            \* the array returned by the last decision_function

vars == <<alpha, threshold_, attrs, decision_scores_, labels_, mu, sigma, data,
          call, pc, X, outlier_scores, p_ix, critical_values, r_ix, r,
          n_values, cur_alpha_n, how, outcome, result>>

fitted_vars == <<attrs, decision_scores_, labels_, mu, sigma>>
config_vars == <<alpha, threshold_, data>>
scan_vars == <<X, outlier_scores, p_ix, critical_values, r_ix, r, n_values,
               cur_alpha_n, how>>

----------------------------------------------------------------------------
(* Bounds of the model *)

Below == 2
Above == 1
MaxSmall == 2

Coords == {0, 3, 7}
Singles == {<<>>, <<7>>, <<3, 7>>}
Alphas == {<<1, 2>>, <<3, 10>>}
Thresholds == {-1, 3, 5}

(* the guard of line 184 *)
MinSamples == 20

(* sizes of the cluster of coincident points, around the guard *)
ClusterSizes == (MinSamples - Below)..(MinSamples + Above)

----------------------------------------------------------------------------
(* Sequences *)

Rep(x, n) == [i \in 1..n |-> x]

Reverse(s) == [i \in 1..Len(s) |-> s[Len(s) + 1 - i]]

SeqsUpTo(S, n) == UNION {[1..k -> S] : k \in 0..n}

RECURSIVE SumSeq(_)
SumSeq(s) == IF s = <<>> THEN 0 ELSE Head(s) + SumSeq(Tail(s))

RECURSIVE SumSqSeq(_)
SumSqSeq(s) == IF s = <<>> THEN 0 ELSE Head(s) * Head(s) + SumSqSeq(Tail(s))

Abs(x) == IF x < 0 THEN -x ELSE x

(* the datasets the caller may hold *)
Inputs ==
    {Rep(0, c) \o s : c \in ClusterSizes, s \in Singles}
    \cup (SeqsUpTo(Coords, MaxSmall) \ {<<>>})

(* the orderings of its dataset that the caller passes to decision_function *)
Views(d) == {Reverse(d)}

----------------------------------------------------------------------------
(* float64 arithmetic on radii *)

(* fl(fl(d / a) * a) > d in IEEE-754 double arithmetic *)
RoundsUp(a, d) == a = <<3, 10>> /\ d \in {7, 11, 14, 22}

(* rad * an, an integer *)
Scaled(a, rad) == IF rad.div THEN rad.d * a[2] ELSE rad.d * a[1]

(* dist <= rad *)
DistLeqR(a, dist, rad) == dist * a[1] <= Scaled(a, rad)

(* dist < rad * alpha *)
DistLtAlphaR(a, dist, rad) ==
    IF rad.div THEN dist < rad.d \/ (dist = rad.d /\ RoundsUp(a, rad.d))
             ELSE dist * a[2] < rad.d * a[1]

----------------------------------------------------------------------------
(* _calculate_decision_score and its helpers *)

dist_matrix(Xs, i, j) == Abs(Xs[i] - Xs[j])

Indices(Xs) == 1..Len(Xs)

max_dist(Xs) ==
    CHOOSE m \in {dist_matrix(Xs, i, j) : i, j \in Indices(Xs)} :
        \A i, j \in Indices(Xs) : dist_matrix(Xs, i, j) <= m

r_max(Xs) == [d |-> max_dist(Xs), div |-> TRUE]

RECURSIVE Insert(_, _, _)
Insert(a, rad, s) ==
    IF s = <<>> THEN <<rad>>
    ELSE IF Scaled(a, rad) <= Scaled(a, Head(s)) THEN <<rad>> \o s
    ELSE <<Head(s)>> \o Insert(a, rad, Tail(s))

RECURSIVE Sort(_, _)
Sort(a, s) == IF s = <<>> THEN <<>> ELSE Insert(a, Head(s), Sort(a, Tail(s)))

(* the row of distances under the mask, in index order *)
RECURSIVE Masked(_, _, _, _)
Masked(a, Xs, p, j) ==
    IF j > Len(Xs) THEN <<>>
    ELSE LET dj == dist_matrix(Xs, p, j)
         IN  (IF 0 < dj /\ DistLeqR(a, dj, r_max(Xs)) THEN <<dj>> ELSE <<>>)
             \o Masked(a, Xs, p, j + 1)

GetCriticalValues(a, Xs, p) ==
    LET ds == Masked(a, Xs, p, 1)
    IN  Sort(a, [i \in 1..Len(ds) |-> [d |-> ds[i], div |-> FALSE]]
                \o [i \in 1..Len(ds) |-> [d |-> ds[i], div |-> TRUE]])

(* indices of the rad-neighbours, ascending, from index j on *)
RECURSIVE SampleFrom(_, _, _, _, _)
SampleFrom(a, Xs, p, rad, j) ==
    IF j > Len(Xs) THEN <<>>
    ELSE (IF DistLeqR(a, dist_matrix(Xs, p, j), rad) THEN <<j>> ELSE <<>>)
         \o SampleFrom(a, Xs, p, rad, j + 1)

(* variant: the first index is never looked at *)
GetSamplingN_SkipFirst(a, Xs, p, rad) == SampleFrom(a, Xs, p, rad, 2)

GetSamplingN(a, Xs, p, rad) == SampleFrom(a, Xs, p, rad, 1)

(* variant: the point itself is left out of its count *)
GetAlphaN_ExcludeSelf(a, Xs, i, rad) ==
    Cardinality({j \in Indices(Xs) \ {i} :
                    DistLtAlphaR(a, dist_matrix(Xs, i, j), rad)})

(* scalar mode *)
GetAlphaN(a, Xs, i, rad) ==
    Cardinality({j \in Indices(Xs) : DistLtAlphaR(a, dist_matrix(Xs, i, j), rad)})

(* batch mode: one count per index *)
GetAlphaNBatch(a, Xs, indices, rad) ==
    [t \in 1..Len(indices) |-> GetAlphaN(a, Xs, indices[t], rad)]

DefaultScore == <<0, 1>>

NoRadius == [d |-> 0, div |-> FALSE]

(* variant: the sum, not the mean, is compared *)
Guard_Sum(nv) == SumSeq(nv) >= MinSamples

(* n_hat >= 20 *)
Guard(nv) == SumSeq(nv) >= MinSamples * Len(nv)

(* mdef / sigma_mdef *)
Ratio(nv, cur) ==
    <<SumSeq(nv) - cur * Len(nv),
      Len(nv) * SumSqSeq(nv) - SumSeq(nv) * SumSeq(nv)>>

(* x > k * sqrt(v) for integers x, k and v >= 0 *)
GtKSqrt(x, k, v) ==
    IF k >= 0 THEN x > 0 /\ x * x > k * k * v
    ELSE x > 0 \/ (x = 0 /\ v > 0) \/ (x < 0 /\ x * x < k * k * v)

(* mdef > threshold_ * sigma_mdef *)
ExitTest(nv, cur, k) == GtKSqrt(Ratio(nv, cur)[1], k, Ratio(nv, cur)[2])

(* score > threshold_ ; nan and -inf compare false, +inf true *)
ScoreGt(s, k) == IF s[2] = 0 THEN s[1] > 0 ELSE GtKSqrt(s[1], k, s[2])

(* p / q <= u / v for naturals p, u and positive q, v, without products *)
RECURSIVE FracLeq(_, _, _, _)
FracLeq(p, q, u, v) ==
    IF p \div q # u \div v THEN p \div q < u \div v
    ELSE IF p % q = 0 THEN TRUE
    ELSE IF u % v = 0 THEN FALSE
    ELSE FracLeq(v, u % v, q, p % q)

IsReal(s) == s[2] > 0
IsZero(s) == s[1] = 0 /\ s[2] > 0

(* s <= t as real numbers, for real scores *)
ScoreLeq(s, t) ==
    IF s[1] <= 0 /\ t[1] >= 0 THEN TRUE
    ELSE IF s[1] > 0 /\ t[1] <= 0 THEN FALSE
    ELSE IF s[1] > 0 THEN FracLeq(s[1] * s[1], s[2], t[1] * t[1], t[2])
    ELSE FracLeq(t[1] * t[1], t[2], s[1] * s[1], s[2])

Labels(scores, k) ==
    [i \in 1..Len(scores) |-> IF ScoreGt(scores[i], k) THEN 1 ELSE 0]

----------------------------------------------------------------------------

Init ==
    /\ alpha \in Alphas
    /\ threshold_ \in Thresholds
    /\ data \in Inputs
    /\ attrs = {"threshold_"}
    /\ decision_scores_ = <<>>
    /\ labels_ = <<>>
    /\ mu = <<>>
    /\ sigma = <<>>
    /\ call = "none"
    /\ pc = "idle"
    /\ X = <<>>
    /\ outlier_scores = <<>>
    /\ p_ix = 1
    /\ critical_values = <<>>
    /\ r_ix = 1
    /\ r = NoRadius
    /\ n_values = <<>>
    /\ cur_alpha_n = 0
    /\ how = "none"
    /\ outcome = "none"
    /\ result = <<>>

(* lines 168-171: entry of _calculate_decision_score *)
Enter(name, Xs) ==
    /\ call' = name
    /\ pc' = "point"
    /\ X' = Xs
    /\ outlier_scores' = Rep(DefaultScore, Len(Xs))
    /\ p_ix' = 1
    /\ critical_values' = <<>>
    /\ r_ix' = 1
    /\ r' = NoRadius
    /\ n_values' = <<>>
    /\ cur_alpha_n' = 0
    /\ how' = "none"
    /\ outcome' = "none"
    /\ result' = <<>>

(* fit, lines 203-205 *)
Fit ==
    /\ pc = "idle"
    /\ Enter("fit", data)
    /\ UNCHANGED <<config_vars, fitted_vars>>

(* decision_function, line 217 failing *)
DecisionFunctionUnfitted ==
    /\ pc = "idle"
    /\ ~ ({"decision_scores_", "threshold_", "labels_"} \subseteq attrs)
    /\ outcome' = "NotFittedError"
    /\ UNCHANGED <<config_vars, fitted_vars, scan_vars, call, pc, result>>

(* decision_function, lines 217-219 *)
DecisionFunction ==
    /\ pc = "idle"
    /\ {"decision_scores_", "threshold_", "labels_"} \subseteq attrs
    /\ \E Xs \in Views(data) : Enter("decision_function", Xs)
    /\ UNCHANGED <<config_vars, fitted_vars>>

(* variant: the scan starts at the second critical value *)
BeginPoint_SkipFirst ==
    /\ pc = "point"
    /\ p_ix <= Len(X)
    /\ critical_values' = GetCriticalValues(alpha, X, p_ix)
    /\ r_ix' = 2
    /\ how' = "none"
    /\ pc' = "scan"
    /\ UNCHANGED <<config_vars, fitted_vars, call, X, outlier_scores, p_ix, r,
                   n_values, cur_alpha_n, outcome, result>>

(* lines 173-175: next iteration of the outer loop *)
BeginPoint ==
    /\ pc = "point"
    /\ p_ix <= Len(X)
    /\ critical_values' = GetCriticalValues(alpha, X, p_ix)
    /\ r_ix' = 1
    /\ how' = "none"
    /\ pc' = "scan"
    /\ UNCHANGED <<config_vars, fitted_vars, call, X, outlier_scores, p_ix, r,
                   n_values, cur_alpha_n, outcome, result>>

(* variant: the running score keeps the larger value *)
ScanStep_Max ==
    /\ pc = "scan"
    /\ r_ix <= Len(critical_values)
    /\ LET rr == critical_values[r_ix]
           nv == GetAlphaNBatch(alpha, X, GetSamplingN(alpha, X, p_ix, rr), rr)
           cur == GetAlphaN(alpha, X, p_ix, rr)
       IN  /\ r' = rr
           /\ n_values' = nv
           /\ cur_alpha_n' = cur
           /\ IF Guard(nv)
              THEN /\ outlier_scores' =
                          [outlier_scores EXCEPT ![p_ix] =
                              IF IsReal(@) /\ IsReal(Ratio(nv, cur))
                                 /\ ScoreLeq(Ratio(nv, cur), @)
                              THEN @ ELSE Ratio(nv, cur)]
                   /\ IF ExitTest(nv, cur, threshold_)
                      THEN pc' = "end_scan" /\ how' = "break" /\ r_ix' = r_ix
                      ELSE pc' = "scan" /\ how' = how /\ r_ix' = r_ix + 1
              ELSE /\ outlier_scores' = outlier_scores
                   /\ pc' = "scan" /\ how' = how /\ r_ix' = r_ix + 1
    /\ UNCHANGED <<config_vars, fitted_vars, call, X, p_ix, critical_values,
                   outcome, result>>

(* variant: the scan never breaks *)
ScanStep_NoBreak ==
    /\ pc = "scan"
    /\ r_ix <= Len(critical_values)
    /\ LET rr == critical_values[r_ix]
           nv == GetAlphaNBatch(alpha, X, GetSamplingN(alpha, X, p_ix, rr), rr)
           cur == GetAlphaN(alpha, X, p_ix, rr)
       IN  /\ r' = rr
           /\ n_values' = nv
           /\ cur_alpha_n' = cur
           /\ IF Guard(nv)
              THEN /\ outlier_scores' =
                          [outlier_scores EXCEPT ![p_ix] = Ratio(nv, cur)]
                   /\ pc' = "scan" /\ how' = how /\ r_ix' = r_ix + 1
              ELSE /\ outlier_scores' = outlier_scores
                   /\ pc' = "scan" /\ how' = how /\ r_ix' = r_ix + 1
    /\ UNCHANGED <<config_vars, fitted_vars, call, X, p_ix, critical_values,
                   outcome, result>>

(* variant: the early exit is tested outside the guard *)
ScanStep_BreakUnguarded ==
    /\ pc = "scan"
    /\ r_ix <= Len(critical_values)
    /\ LET rr == critical_values[r_ix]
           nv == GetAlphaNBatch(alpha, X, GetSamplingN(alpha, X, p_ix, rr), rr)
           cur == GetAlphaN(alpha, X, p_ix, rr)
       IN  /\ r' = rr
           /\ n_values' = nv
           /\ cur_alpha_n' = cur
           /\ IF Guard(nv)
              THEN outlier_scores' =
                       [outlier_scores EXCEPT ![p_ix] = Ratio(nv, cur)]
              ELSE outlier_scores' = outlier_scores
           /\ IF ExitTest(nv, cur, threshold_)
              THEN pc' = "end_scan" /\ how' = "break" /\ r_ix' = r_ix
              ELSE pc' = "scan" /\ how' = how /\ r_ix' = r_ix + 1
    /\ UNCHANGED <<config_vars, fitted_vars, call, X, p_ix, critical_values,
                   outcome, result>>

(* lines 176-187: one iteration of the inner loop *)
ScanStep ==
    /\ pc = "scan"
    /\ r_ix <= Len(critical_values)
    /\ LET rr == critical_values[r_ix]
           nv == GetAlphaNBatch(alpha, X, GetSamplingN(alpha, X, p_ix, rr), rr)
           cur == GetAlphaN(alpha, X, p_ix, rr)
       IN  /\ r' = rr
           /\ n_values' = nv
           /\ cur_alpha_n' = cur
           /\ IF Guard(nv)
              THEN /\ outlier_scores' =
                          [outlier_scores EXCEPT ![p_ix] = Ratio(nv, cur)]
                   /\ IF ExitTest(nv, cur, threshold_)
                      THEN pc' = "end_scan" /\ how' = "break" /\ r_ix' = r_ix
                      ELSE pc' = "scan" /\ how' = how /\ r_ix' = r_ix + 1
              ELSE /\ outlier_scores' = outlier_scores
                   /\ pc' = "scan" /\ how' = how /\ r_ix' = r_ix + 1
    /\ UNCHANGED <<config_vars, fitted_vars, call, X, p_ix, critical_values,
                   outcome, result>>

(* line 176: the inner loop has no radius left *)
ScanExhausted ==
    /\ pc = "scan"
    /\ r_ix > Len(critical_values)
    /\ pc' = "end_scan"
    /\ how' = "exhausted"
    /\ UNCHANGED <<config_vars, fitted_vars, call, X, outlier_scores, p_ix,
                   critical_values, r_ix, r, n_values, cur_alpha_n, outcome,
                   result>>

(* line 173: back to the head of the outer loop *)
EndPoint ==
    /\ pc = "end_scan"
    /\ p_ix' = p_ix + 1
    /\ pc' = "point"
    /\ UNCHANGED <<config_vars, fitted_vars, call, X, outlier_scores,
                   critical_values, r_ix, r, n_values, cur_alpha_n, how,
                   outcome, result>>

(* lines 188, 206-214: fit stores the scores and returns *)
FitReturn ==
    /\ pc = "point"
    /\ p_ix > Len(X)
    /\ call = "fit"
    /\ decision_scores_' = outlier_scores
    /\ labels_' = Labels(outlier_scores, threshold_)
    /\ mu' = <<"mean", outlier_scores>>
    /\ sigma' = <<"std", outlier_scores>>
    /\ attrs' = attrs \cup {"decision_scores_", "labels_", "_mu", "_sigma"}
    /\ pc' = "idle"
    /\ outcome' = "fitted"
    /\ UNCHANGED <<config_vars, scan_vars, call, result>>

(* variant: decision_function stores the scores it returns *)
DecisionFunctionReturn_Store ==
    /\ pc = "point"
    /\ p_ix > Len(X)
    /\ call = "decision_function"
    /\ result' = outlier_scores
    /\ decision_scores_' = outlier_scores
    /\ pc' = "idle"
    /\ outcome' = "scores"
    /\ UNCHANGED <<config_vars, attrs, labels_, mu, sigma, scan_vars, call>>

(* lines 188, 220: decision_function returns the scores *)
DecisionFunctionReturn ==
    /\ pc = "point"
    /\ p_ix > Len(X)
    /\ call = "decision_function"
    /\ result' = outlier_scores
    /\ pc' = "idle"
    /\ outcome' = "scores"
    /\ UNCHANGED <<config_vars, fitted_vars, scan_vars, call>>

Next ==
    \/ Fit
    \/ DecisionFunctionUnfitted
    \/ DecisionFunction
    \/ BeginPoint
    \/ ScanStep
    \/ ScanExhausted
    \/ EndPoint
    \/ FitReturn
    \/ DecisionFunctionReturn

Spec == Init /\ [][Next]_vars

----------------------------------------------------------------------------
(* Vocabulary of the properties *)

MaxOf(S) == CHOOSE x \in S : \A y \in S : y <= x
MinOf(S) == CHOOSE x \in S : \A y \in S : x <= y

(* the quantities of the inner loop body at every critical value of p:
   whether n_hat >= 20, mdef/sigma_mdef, and whether the scan breaks there *)
CV(p) == GetCriticalValues(alpha, X, p)
Profile(p, cv) ==
    [i \in 1..Len(cv) |->
        LET nv == GetAlphaNBatch(alpha, X, GetSamplingN(alpha, X, p, cv[i]), cv[i])
            cur == GetAlphaN(alpha, X, p, cv[i])
        IN  [qual |-> Guard(nv),
             value |-> Ratio(nv, cur),
             hit |-> Guard(nv) /\ ExitTest(nv, cur, threshold_)]]

(* a call has returned its scores *)
Returned == pc = "idle" /\ outcome \in {"fitted", "scores"}
ReturnedScores == IF outcome = "fitted" THEN decision_scores_ ELSE result

(* r, n_values and cur_alpha_n are those of a radius of the current point *)
Evaluated ==
    \/ pc = "scan" /\ r_ix > 1
    \/ pc = "end_scan" /\ (how = "break" \/ Len(critical_values) > 0)

(* the radii that the scan of a point with profile pf evaluates: all of
   them, or those up to the first one where the scan breaks *)
TestedOf(pf) ==
    LET hits == {i \in DOMAIN pf : pf[i].hit}
    IN  1..(IF hits = {} THEN Len(pf) ELSE MinOf(hits))

(* the radii of the current point evaluated so far, at the end of its scan *)
Tested == 1..(IF how = "break" THEN r_ix ELSE Len(critical_values))

----------------------------------------------------------------------------
(* C1: the score returned for p is the maximum of mdef/sigma_mdef over the
   tested radii of p with n_hat >= 20, and 0 when there is none. *)
C1_MaxOverRadii ==
    Returned =>
        \A p \in Indices(X) :
            LET pf == Profile(p, CV(p))
                Q == {i \in TestedOf(pf) : pf[i].qual}
                s == ReturnedScores[p]
            IN  IF Q = {} THEN IsZero(s)
                ELSE /\ \E i \in Q : s = pf[i].value
                     /\ \A i \in Q : (IsReal(s) /\ IsReal(pf[i].value))
                                         => ScoreLeq(pf[i].value, s)

(* C1 amended: the score returned for p is mdef/sigma_mdef as computed at the
   last tested radius of p with n_hat >= 20, and the default 0 when there is
   none. *)
C1_LastOverRadii ==
    Returned =>
        \A p \in Indices(X) :
            LET pf == Profile(p, CV(p))
                Q == {i \in TestedOf(pf) : pf[i].qual}
                s == ReturnedScores[p]
            IN  IF Q = {} THEN s = DefaultScore
                ELSE s = pf[MaxOf(Q)].value

(* a returned score that is smaller than an earlier qualifying value *)
C1_Witness ==
    /\ Returned
    /\ \E p \in Indices(X) :
           LET pf == Profile(p, CV(p))
               Q == {i \in TestedOf(pf) : pf[i].qual}
               s == ReturnedScores[p]
           IN  /\ Q # {}
               /\ IsReal(s)
               /\ s = pf[MaxOf(Q)].value
               /\ \E i \in Q : /\ IsReal(pf[i].value)
                               /\ ~ ScoreLeq(pf[i].value, s)

----------------------------------------------------------------------------
(* C2: on a dataset of fewer than 20 points no evaluated radius has
   n_hat >= 20, every score is the default 0, and fit labels every point 0,
   whatever alpha and threshold_k are. *)
C2_SmallAllZero ==
    (Len(X) > 0 /\ Len(X) < MinSamples) =>
        /\ Evaluated => SumSeq(n_values) < MinSamples * Len(n_values)
        /\ \A i \in DOMAIN outlier_scores : outlier_scores[i] = DefaultScore
        /\ "labels_" \in attrs => \A i \in DOMAIN labels_ : labels_[i] = 0

(* C2 amended: as C2, with the labels all 0 when threshold_k >= 0. *)
C2_SmallAllZeroNonNegK ==
    (Len(X) > 0 /\ Len(X) < MinSamples) =>
        /\ Evaluated => SumSeq(n_values) < MinSamples * Len(n_values)
        /\ \A i \in DOMAIN outlier_scores : outlier_scores[i] = DefaultScore
        /\ ("labels_" \in attrs /\ threshold_ >= 0)
               => \A i \in DOMAIN labels_ : labels_[i] = 0

(* a fit of 19 points, whose scan evaluated radii, has returned *)
C2_Witness ==
    /\ outcome = "fitted"
    /\ Len(X) = MinSamples - 1
    /\ threshold_ >= 0
    /\ n_values # <<>>
    /\ SumSeq(n_values) > Len(n_values)
    /\ labels_ = Rep(0, Len(X))

----------------------------------------------------------------------------
(* C3: every alpha count lies in [0, N-1] and the point at the queried index
   is never counted among its own alpha-neighbours. *)
C3_CountsBelowN ==
    Evaluated =>
        /\ \A t \in DOMAIN n_values : n_values[t] \in 0..(Len(X) - 1)
        /\ cur_alpha_n \in 0..(Len(X) - 1)
        /\ ~ DistLtAlphaR(alpha, dist_matrix(X, p_ix, p_ix), r)

(* C3 amended: every alpha count lies in [1, N]: the point at the queried
   index is always counted among its own alpha-neighbours, and the sampling
   query always includes the query point. *)
C3_CountsFromOne ==
    Evaluated =>
        /\ \A t \in DOMAIN n_values : n_values[t] \in 1..Len(X)
        /\ cur_alpha_n \in 1..Len(X)
        /\ cur_alpha_n =
               1 + Cardinality({j \in Indices(X) \ {p_ix} :
                                   DistLtAlphaR(alpha, dist_matrix(X, p_ix, j), r)})
        /\ \E t \in DOMAIN n_values : GetSamplingN(alpha, X, p_ix, r)[t] = p_ix

(* an evaluated radius, free of rounding, where one point counts all N
   points and another does not *)
C3_Witness ==
    /\ Evaluated
    /\ Len(X) >= 3
    /\ ~ RoundsUp(alpha, r.d)
    /\ \E t \in DOMAIN n_values : n_values[t] = Len(X)
    /\ \E t \in DOMAIN n_values : n_values[t] < Len(X)

----------------------------------------------------------------------------
(* C4: every score is a finite real number: sigma_mdef is non-zero whenever
   a score is set. *)
C4_FiniteScores ==
    \A i \in DOMAIN outlier_scores : IsReal(outlier_scores[i])

----------------------------------------------------------------------------
(* C5: scoring a permutation of a dataset yields the permuted scores: a point
   of the reordered dataset has the score of the same point in the original
   order. *)
C5_PermutationInvariant ==
    (outcome = "scores" /\ Len(X) = Len(data)) =>
        \A i \in Indices(data), j \in Indices(X) :
            X[j] = data[i] => result[j] = decision_scores_[i]

(* the reversed dataset was scored, and its points do not all score alike *)
C5_Witness ==
    /\ outcome = "scores"
    /\ X = Reverse(data)
    /\ X # data
    /\ \E i, j \in Indices(X) : result[i] # result[j] /\ ~ IsZero(result[i])
    /\ \A i \in Indices(X) : result[Len(X) + 1 - i] = decision_scores_[i]

----------------------------------------------------------------------------
(* C6: decision_function before the first fit fails with a usage error,
   computes nothing and changes nothing; after a fit it returns one score per
   point of its argument and never changes decision_scores_, labels_, _mu or
   _sigma. *)
C6_DecisionFunction ==
    [][ /\ (pc = "idle" /\ "decision_scores_" \notin attrs /\ call' # "fit")
               => /\ outcome' = "NotFittedError"
                  /\ UNCHANGED <<config_vars, fitted_vars, scan_vars, call, pc,
                                 result>>
        /\ (call' = "decision_function")
               => /\ "decision_scores_" \in attrs
                  /\ outcome' # "NotFittedError"
                  /\ UNCHANGED fitted_vars
        /\ (call = "decision_function" /\ pc = "point" /\ pc' = "idle")
               => /\ outcome' = "scores"
                  /\ Len(result') = Len(X)
                  /\ result' = outlier_scores
      ]_vars

(* decision_function has returned scores other than the fitted ones *)
C6_Witness ==
    /\ outcome = "scores"
    /\ Len(result) = Len(X)
    /\ result # decision_scores_
    /\ \E i \in Indices(X) : ~ IsZero(result[i])

----------------------------------------------------------------------------
(* C7: whenever a scanned radius has mdef > threshold_k * sigma_mdef the scan
   of the point stops. *)
C7_ExitStops ==
    [][ (pc = "scan" /\ r_ix <= Len(critical_values)
         /\ ExitTest(n_values', cur_alpha_n', threshold_))
            => pc' = "end_scan" ]_vars

(* the points whose scan is over in the running call *)
Finished == IF pc = "end_scan" THEN 1..p_ix ELSE 1..(p_ix - 1)

(* C7 amended: whenever a scanned radius has n_hat >= 20 and
   mdef > threshold_k * sigma_mdef the scan of the point stops: no larger
   radius is evaluated for the point and its score at that moment is final. *)
C7_GuardedExitStops ==
    [][ /\ (pc = "scan" /\ r_ix <= Len(critical_values)
            /\ SumSeq(n_values') >= MinSamples * Len(n_values')
            /\ ExitTest(n_values', cur_alpha_n', threshold_))
               => pc' = "end_scan" /\ how' = "break"
        /\ (pc = "end_scan" /\ how = "break")
               => p_ix' = p_ix + 1 /\ UNCHANGED <<r, n_values, outlier_scores>>
        /\ (pc # "idle" /\ pc' # "idle")
               => \A i \in Finished : outlier_scores'[i] = outlier_scores[i]
      ]_vars

(* a scan stopped by the early exit with larger radii left *)
C7_Witness ==
    /\ pc = "end_scan"
    /\ how = "break"
    /\ r_ix < Len(critical_values)
    /\ Scaled(alpha, r) < Scaled(alpha, critical_values[Len(critical_values)])

----------------------------------------------------------------------------
(* C8: the final score of a point is mdef/sigma_mdef at the last evaluated
   radius with n_hat >= 20; if some radius has n_hat >= 20 and
   mdef > threshold_k * sigma_mdef, that radius is the smallest such radius
   and no larger radius changes the score. *)
C8_LastQualifyingWins ==
    pc = "end_scan" =>
        LET pf == Profile(p_ix, critical_values)
            Q == {i \in Tested : pf[i].qual}
            hits == {i \in DOMAIN pf : pf[i].hit}
        IN  /\ Q # {} => outlier_scores[p_ix] = pf[MaxOf(Q)].value
            /\ hits # {} => /\ how = "break"
                            /\ r_ix = MinOf(hits)
                            /\ MaxOf(Q) = MinOf(hits)
                            /\ outlier_scores[p_ix] = pf[MinOf(hits)].value

(* returned scores where one point's scan overwrote an earlier qualifying
   value without ever breaking, and another point's scan stopped at its first
   radius passing the exit test although a larger radius qualifies with
   another value *)
C8_Witness ==
    /\ Returned
    /\ \E p \in Indices(X) :
           LET pf == Profile(p, CV(p))
               Q == {i \in DOMAIN pf : pf[i].qual}
           IN  /\ \A i \in DOMAIN pf : ~ pf[i].hit
               /\ \E i \in Q : pf[i].value # pf[MaxOf(Q)].value
               /\ ReturnedScores[p] = pf[MaxOf(Q)].value
    /\ \E p \in Indices(X) :
           LET pf == Profile(p, CV(p))
               hits == {i \in DOMAIN pf : pf[i].hit}
           IN  /\ hits # {}
               /\ ReturnedScores[p] = pf[MinOf(hits)].value
               /\ \E i \in (MinOf(hits) + 1)..Len(pf) :
                      pf[i].qual /\ pf[i].value # ReturnedScores[p]

----------------------------------------------------------------------------
(* C9: the scan of a point ends either stopped by the early exit (guard
   satisfied and exit test passed at the current radius) or exhausted with no
   radius having satisfied n_hat >= 20 and the score still 0. *)
C9_TwoTerminalStates ==
    pc = "end_scan" =>
        LET pf == Profile(p_ix, critical_values)
        IN  \/ how = "break" /\ pf[r_ix].hit
            \/ /\ how = "exhausted"
               /\ \A i \in DOMAIN pf : ~ pf[i].qual
               /\ outlier_scores[p_ix] = DefaultScore

StoppedByExit(pf) ==
    /\ how = "break"
    /\ pf[r_ix].hit
    /\ outlier_scores[p_ix] = pf[r_ix].value

ExhaustedUnqualified(pf) ==
    /\ how = "exhausted"
    /\ \A i \in DOMAIN pf : ~ pf[i].qual
    /\ outlier_scores[p_ix] = DefaultScore

ExhaustedQualified(pf) ==
    /\ how = "exhausted"
    /\ \E i \in DOMAIN pf : pf[i].qual
    /\ \A i \in DOMAIN pf : ~ pf[i].hit
    /\ outlier_scores[p_ix] = pf[MaxOf({i \in DOMAIN pf : pf[i].qual})].value

Terminal(pf) ==
    \/ StoppedByExit(pf)
    \/ ExhaustedUnqualified(pf)
    \/ ExhaustedQualified(pf)

(* C9 amended: the scan of a point starts scanning and, radius after radius
   of its finite list, comes to an end in exactly one of three terminal
   states: stopped by the early exit, exhausted with no radius having
   satisfied n_hat >= 20 (score still 0), or exhausted with some radius having
   satisfied n_hat >= 20 and none having passed the exit test (score of the
   last such radius). *)
C9_ThreeTerminalStates ==
    /\ [](pc = "end_scan" =>
             LET pf == Profile(p_ix, critical_values) IN Terminal(pf))
    /\ [][ /\ pc' = "scan" => how' = "none"
           /\ pc = "scan" =>
                 /\ pc' \in {"scan", "end_scan"}
                 /\ UNCHANGED <<p_ix, critical_values>>
                 /\ pc' = "scan" => /\ r_ix <= Len(critical_values)
                                    /\ r_ix' = r_ix + 1
           /\ pc' = "end_scan" => pc \in {"scan", "end_scan"}
         ]_vars

(* a scan that ran out of radii after some had satisfied the guard *)
C9_Witness ==
    /\ pc = "end_scan"
    /\ LET pf == Profile(p_ix, critical_values) IN ExhaustedQualified(pf)
    /\ ~ IsZero(outlier_scores[p_ix])

----------------------------------------------------------------------------
(* C10: at every evaluated radius the sampling neighbourhood is non-empty and
   1 <= n_hat < N, so a dataset of N <= 20 points never satisfies the
   n_hat >= 20 guard. *)
C10_MeanBelowN ==
    Evaluated =>
        /\ Len(n_values) >= 1
        /\ Len(n_values) <= SumSeq(n_values)
        /\ SumSeq(n_values) < Len(X) * Len(n_values)
        /\ Len(X) <= MinSamples => SumSeq(n_values) < MinSamples * Len(n_values)

====
